---- MODULE Spec2Model ----
(***************************************************************************)
(* retryableredis: a radix.Conn wrapper that reconnects on network errors  *)
(* and retries on LOADING replies (retryableRedisConn), and the command    *)
(* actions that rebuild their radix action after each decode               *)
(* (RetryableCmd, RetryableFlatCmd).                                       *)
(*                                                                         *)
(* Every caller is a process with a program counter; one step of a process *)
(* is one access to the shared wrapper field rc.inner or one interaction   *)
(* with the transport (radix.Dial, Encode, Decode).                        *)
(***************************************************************************)
EXTENDS Integers, Sequences, FiniteSets, TLC

\* ------------------------------------------------------------------ bounds
\* Calls of rc.inner.Do(a) one Do call may make.
MaxAttempts == 4
\* Failed transport dials in a row inside one Reconnect/ReconnectLoop call.
MaxDialFails == 2
\* Transport connections radix.Dial hands out over the wrapper's life.
MaxConns == 2

\* ------------------------------------------------------- program constants
ReconnectSleepMs == 500
LoadingSleepMs == 250

Procs == {1, 2}

\* ------------------------------------------------------------------ errors
\* A Go error value: nil, or a value with a dynamic type that does or does
\* not implement net.Error, and the text Error() returns (one string per
\* character).
MkErr(isNet, txt) == [nil |-> FALSE, net |-> isNet, text |-> txt]
Nil == [nil |-> TRUE, net |-> FALSE, text |-> <<>>]

LOADING == <<"L", "O", "A", "D", "I", "N", "G">>

\* read timeout / connection reset: a *net.OpError
ErrTimeout == MkErr(TRUE, <<"i", "/", "o">>)
\* write or read on a connection that was closed: a *net.OpError
ErrClosed == MkErr(TRUE, <<"c", "l", "o", "s", "e", "d">>)
\* the server's reply while it loads its dataset
ErrLoading == MkErr(FALSE, LOADING \o <<" ", "R">>)
\* server-rejected command
ErrWrongType == MkErr(FALSE, <<"W", "R", "O", "N", "G">>)
\* a reply that mentions LOADING but does not begin with it
ErrMidLoading == MkErr(FALSE, <<"E", " ">> \o LOADING)
\* a marshalling failure of the command's arguments
ErrMarshal == MkErr(FALSE, <<"m", "a", "r">>)
\* radix.Dial failures: connection refused (net.Error), AUTH rejected (not)
ErrRefused == MkErr(TRUE, <<"r", "e", "f">>)
ErrAuth == MkErr(FALSE, <<"A", "U", "T", "H">>)

\* The errors the transport and the server produce. No error of the net
\* package or of the server both is a net.Error and begins with LOADING.
DialErrs == {ErrRefused, ErrAuth}
EncodeErrs == {ErrTimeout, ErrMarshal}
DecodeErrs == {ErrTimeout, ErrLoading, ErrWrongType, ErrMidLoading}

\* strings.Contains in place of strings.HasPrefix.
HasSubstring(s, prefix) ==
    \E i \in 1..Len(s) :
        /\ i + Len(prefix) - 1 <= Len(s)
        /\ SubSeq(s, i, i + Len(prefix) - 1) = prefix

\* strings.HasPrefix(s, prefix)
HasPrefix(s, prefix) ==
    /\ Len(s) >= Len(prefix)
    /\ SubSeq(s, 1, Len(prefix)) = prefix

\* _, ok := err.(net.Error)
IsNetError(e) == ~e.nil /\ e.net

\* strings.HasPrefix(err.Error(), "LOADING")
IsLoadingError(e) == ~e.nil /\ HasPrefix(e.text, LOADING)

\* Do without its reconnect branch: a network error is returned.
ClassifyNoReconnect(e) ==
    IF e.nil THEN "return_nil"
    ELSE IF IsLoadingError(e) THEN "retry"
    ELSE "return_err"

\* Do retrying a network error in place, as it retries a LOADING reply.
ClassifyNetAsRetry(e) ==
    IF e.nil THEN "return_nil"
    ELSE IF IsNetError(e) \/ IsLoadingError(e) THEN "retry"
    ELSE "return_err"

\* What Do's loop does with the error of one attempt.
Classify(e) ==
    IF e.nil THEN "return_nil"
    ELSE IF IsNetError(e) THEN "reconnect"
    ELSE IF IsLoadingError(e) THEN "retry"
    ELSE "return_err"

\* ----------------------------------------------------------------- actions
\* radix.Cmd(rcv, cmd, args...) and radix.FlatCmd(rcv, cmd, key, args...):
\* a new radix action object. marshals counts the MarshalRESP calls made on
\* the object, used is set once UnmarshalRESP was called on it.
RadixCmd(rcv, cmd, args) ==
    [kind |-> "Cmd", rcv |-> rcv, cmd |-> cmd, args |-> args,
     marshals |-> 0, used |-> FALSE]
RadixFlatCmd(rcv, cmd, key, args) ==
    [kind |-> "FlatCmd", rcv |-> rcv, cmd |-> cmd, args |-> <<key>> \o args,
     marshals |-> 0, used |-> FALSE]

\* The absent (nil) radix action.
NoInner ==
    [kind |-> "nil", rcv |-> 0, cmd |-> "", args |-> <<>>, marshals |-> 0,
     used |-> FALSE]

\* No action object.
NoAction ==
    [variant |-> "none", rcv |-> 0, cmd |-> "", key |-> "", args |-> <<>>,
     inner |-> NoInner]

\* Cmd(rcv, cmd, args...): builds the first radix action eagerly.
Cmd(rcv, cmd, args) ==
    [variant |-> "Cmd", rcv |-> rcv, cmd |-> cmd, key |-> "", args |-> args,
     inner |-> RadixCmd(rcv, cmd, args)]

\* FlatCmd(rcv, cmd, key, args...)
FlatCmd(rcv, cmd, key, args) ==
    [variant |-> "FlatCmd", rcv |-> rcv, cmd |-> cmd, key |-> key,
     args |-> args, inner |-> RadixFlatCmd(rcv, cmd, key, args)]

\* The radix action r.getInner() builds: RetryableFlatCmd from rcv, cmd, key
\* and args, RetryableCmd from rcv, cmd and args.
Rebuild(r) ==
    IF r.variant = "FlatCmd"
    THEN RadixFlatCmd(r.rcv, r.cmd, r.key, r.args)
    ELSE RadixCmd(r.rcv, r.cmd, r.args)

\* getInner: build the radix action when it is absent; the action after the
\* call (r.inner is what getInner returns).
GetInner(r) ==
    IF r.inner = NoInner THEN [r EXCEPT !.inner = Rebuild(r)] ELSE r

\* MarshalRESP: c.getInner().MarshalRESP(w)
MarshalRESP(r) == [GetInner(r) EXCEPT !.inner.marshals = @ + 1]

\* The radix action UnmarshalRESP decodes into, after the decode.
Unmarshalled(r) == [GetInner(r) EXCEPT !.inner.used = TRUE]

\* UnmarshalRESP without c.inner = nil.
UnmarshalRESPKeep(r) == Unmarshalled(r)

\* UnmarshalRESP: err := c.getInner().UnmarshalRESP(br); c.inner = nil
UnmarshalRESP(r) == [Unmarshalled(r) EXCEPT !.inner = NoInner]

\* Keys: r.getInner().Keys()
Keys(r) == GetInner(r)

\* The commands the callers issue: the demo's INCR and HSET.
NewActions ==
    {Cmd(1, "INCR", <<"test">>), FlatCmd(0, "HSET", "testing_h", <<"5", "wew">>)}

\* ------------------------------------------------------------------- state
VARIABLES
    callers,    \* the processes that use the wrapper
    made,       \* Dial has returned the wrapper rc
    dialOk,     \* Dial returned it with a nil error
    inner,      \* rc.inner: 0 (nil) or a connection
    conf,       \* rc.conf: which callbacks are set
    conns,      \* the connections radix.Dial returned: "open" or "closed"
    closeCalled,\* rc.Close() has been called
    pc,         \* each process's position
    stack,      \* each process's return positions
    op,         \* the wrapper method each process called last
    act,        \* the action a of each process
    cur,        \* the connection the running attempt was issued on
    err,        \* Do's err / Reconnect's dial error
    cause,      \* Reconnect's and ReconnectLoop's cause
    newInner,   \* Reconnect's local inner
    cbArg,      \* the argument of the callback the last step invoked
    ret,        \* what the last call returned
    log,        \* what the current call did, in order
    effects,    \* times the server executed the command of the current Do
    attempts,   \* rc.inner.Do(a) calls of the current Do
    fails,      \* failed dials in a row of the current call
    runStage    \* where the last Run ended: "encode", "decode" or "none"

wvars == <<made, dialOk, inner, conf, conns, closeCalled>>
locals == <<stack, cur, err, cause, newInner>>
vars == <<callers, made, dialOk, inner, conf, conns, closeCalled, pc, stack, op, act,
          cur, err, cause, newInner, cbArg, ret, log, effects, attempts,
          fails, runStage>>

\* One entry of log: what was done, and on which connection (or for how
\* many milliseconds).
Ev(kind, n) == [ev |-> kind, n |-> n]

Confs == [OnReconnect : BOOLEAN, OnRetry : BOOLEAN]

InitWith(cs) ==
    /\ callers = cs
    /\ made = FALSE
    /\ dialOk = FALSE
    /\ inner = 0
    /\ conf = [OnReconnect |-> FALSE, OnRetry |-> FALSE]
    /\ conns = <<>>
    /\ closeCalled = FALSE
    /\ pc = [p \in Procs |-> "idle"]
    /\ stack = [p \in Procs |-> <<>>]
    /\ op = [p \in Procs |-> "none"]
    /\ act = [p \in Procs |-> NoAction]
    /\ cur = [p \in Procs |-> 0]
    /\ err = [p \in Procs |-> Nil]
    /\ cause = [p \in Procs |-> Nil]
    /\ newInner = [p \in Procs |-> 0]
    /\ cbArg = [p \in Procs |-> Nil]
    /\ ret = [p \in Procs |-> Nil]
    /\ log = [p \in Procs |-> <<>>]
    /\ effects = [p \in Procs |-> 0]
    /\ attempts = [p \in Procs |-> 0]
    /\ fails = [p \in Procs |-> 0]
    /\ runStage = [p \in Procs |-> "none"]

\* Single-caller use: one process.
Init == InitWith({1})

\* ----------------------------------------------------------- call helpers
Push(p, label) == [stack EXCEPT ![p] = <<label>> \o @]
Logged(p, evs) == [log EXCEPT ![p] = @ \o evs]

\* A wrapper method called by process p starts: the record of the call.
\* a is the action the call is given (NoAction for all but Do).
Begin(p, name, a) ==
    /\ pc[p] = "idle"
    /\ act' = [act EXCEPT ![p] = a]
    /\ op' = [op EXCEPT ![p] = name]
    /\ attempts' = [attempts EXCEPT ![p] = 0]
    /\ fails' = [fails EXCEPT ![p] = 0]
    /\ effects' = [effects EXCEPT ![p] = 0]
    /\ runStage' = [runStage EXCEPT ![p] = "none"]
    /\ cbArg' = [cbArg EXCEPT ![p] = Nil]

\* The method process p called returns v; its locals are gone.
Leave(p, position, v) ==
    /\ pc' = [pc EXCEPT ![p] = position]
    /\ ret' = [ret EXCEPT ![p] = v]
    /\ stack' = [stack EXCEPT ![p] = <<>>]
    /\ cur' = [cur EXCEPT ![p] = 0]
    /\ err' = [err EXCEPT ![p] = Nil]
    /\ cause' = [cause EXCEPT ![p] = Nil]
    /\ newInner' = [newInner EXCEPT ![p] = 0]
Return(p, v) == Leave(p, "idle", v)

\* A method called on the nil interface rc.inner: nil pointer dereference.
Panic(p) == Leave(p, "panic", Nil)

\* ---------------------------------------------------------------- Dial
\* Dial calling rc.ReconnectLoop(nil) in place of rc.Reconnect(nil).
DialStartLoop(p) ==
    /\ ~made
    /\ \A q \in callers : pc[q] = "idle" /\ op[q] = "none"
    /\ Begin(p, "Dial", NoAction)
    /\ \E c \in Confs : conf' = c
    /\ cause' = [cause EXCEPT ![p] = Nil]
    /\ log' = [log EXCEPT ![p] = <<>>]
    /\ ret' = [ret EXCEPT ![p] = Nil]
    /\ stack' = Push(p, "dial_ret")
    /\ pc' = [pc EXCEPT ![p] = "rl_call"]
    /\ UNCHANGED <<callers, made, dialOk, inner, conns, closeCalled, cur, err,
                   newInner>>

\* Dial(conf): rc := &retryableRedisConn{conf: conf}; rc.Reconnect(nil)
DialStart(p) ==
    /\ ~made
    /\ \A q \in callers : pc[q] = "idle" /\ op[q] = "none"
    /\ Begin(p, "Dial", NoAction)
    /\ \E c \in Confs : conf' = c
    /\ cause' = [cause EXCEPT ![p] = Nil]
    /\ log' = [log EXCEPT ![p] = <<>>]
    /\ ret' = [ret EXCEPT ![p] = Nil]
    /\ stack' = Push(p, "dial_ret")
    /\ pc' = [pc EXCEPT ![p] = "rc_close"]
    /\ UNCHANGED <<callers, made, dialOk, inner, conns, closeCalled, cur, err, newInner>>

\* return rc, err
DialReturn(p) ==
    /\ pc[p] = "dial_ret"
    /\ made' = TRUE
    /\ dialOk' = (err[p] = Nil)
    /\ Return(p, err[p])
    /\ UNCHANGED <<callers, inner, conf, conns, closeCalled, op, act, cbArg,
                   log, effects, attempts, fails, runStage>>

\* ------------------------------------------------------------- Reconnect
\* The caller calls rc.Reconnect(cause) itself.
ReconnectStart(p) ==
    /\ made
    /\ Begin(p, "Reconnect", NoAction)
    /\ \E c \in {Nil, ErrTimeout} : cause' = [cause EXCEPT ![p] = c]
    /\ log' = [log EXCEPT ![p] = <<>>]
    /\ ret' = [ret EXCEPT ![p] = Nil]
    /\ stack' = Push(p, "caller")
    /\ pc' = [pc EXCEPT ![p] = "rc_close"]
    /\ UNCHANGED <<callers, wvars, cur, err, newInner>>

\* Reconnect without closing the previous connection.
RcCloseSkip(p) ==
    /\ pc[p] = "rc_close"
    /\ pc' = [pc EXCEPT ![p] = "rc_dial"]
    /\ cbArg' = [cbArg EXCEPT ![p] = Nil]
    /\ UNCHANGED <<callers, wvars, locals, op, act, ret, log, effects,
                   attempts, fails, runStage>>

\* if rc.inner != nil { rc.inner.Close() }
RcClose(p) ==
    /\ pc[p] = "rc_close"
    /\ IF inner # 0
       THEN /\ conns' = [conns EXCEPT ![inner] = "closed"]
            /\ log' = Logged(p, <<Ev("close", inner)>>)
       ELSE UNCHANGED <<conns, log>>
    /\ pc' = [pc EXCEPT ![p] = "rc_dial"]
    /\ cbArg' = [cbArg EXCEPT ![p] = Nil]
    /\ UNCHANGED <<callers, made, dialOk, inner, conf, closeCalled, locals, op, act,
                   ret, effects, attempts, fails, runStage>>

\* The connections radix.Dial hands out: MaxConns, and one more for every
\* caller besides the first.
ConnLimit == MaxConns + Cardinality(callers) - 1

\* The OnReconnect call of one Reconnect, if the callback is set.
OnReconnectEvs(p) ==
    IF conf.OnReconnect THEN <<Ev("OnReconnect", 0)>> ELSE <<>>

\* if rc.conf.OnReconnect != nil { rc.conf.OnReconnect(cause) }
\* inner, err := radix.Dial(...)
RcDial(p) ==
    /\ pc[p] = "rc_dial"
    /\ cbArg' = [cbArg EXCEPT ![p] = IF conf.OnReconnect THEN cause[p] ELSE Nil]
    /\ \/ /\ Len(conns) < ConnLimit
          /\ conns' = Append(conns, "open")
          /\ newInner' = [newInner EXCEPT ![p] = Len(conns) + 1]
          /\ err' = [err EXCEPT ![p] = Nil]
          /\ fails' = [fails EXCEPT ![p] = 0]
          /\ log' = Logged(p, OnReconnectEvs(p)
                               \o <<Ev("dial", Len(conns) + 1)>>)
       \/ /\ fails[p] < MaxDialFails
          /\ \E e \in DialErrs : err' = [err EXCEPT ![p] = e]
          /\ log' = Logged(p, OnReconnectEvs(p) \o <<Ev("dial", 0)>>)
          /\ newInner' = [newInner EXCEPT ![p] = 0]
          /\ fails' = [fails EXCEPT ![p] = @ + 1]
          /\ UNCHANGED conns
    /\ pc' = [pc EXCEPT ![p] = "rc_store"]
    /\ UNCHANGED <<callers, made, dialOk, inner, conf, closeCalled, stack, op, act,
                   cur, cause, ret, effects, attempts, runStage>>

\* Reconnect storing the dial result only when the dial succeeded.
RcStoreKeepOnError(p) ==
    /\ pc[p] = "rc_store"
    /\ inner' = IF err[p] = Nil THEN newInner[p] ELSE inner
    /\ cbArg' = [cbArg EXCEPT ![p] = Nil]
    /\ IF Head(stack[p]) = "caller"
       THEN Return(p, err[p])
       ELSE /\ pc' = [pc EXCEPT ![p] = Head(stack[p])]
            /\ stack' = [stack EXCEPT ![p] = Tail(@)]
            /\ newInner' = [newInner EXCEPT ![p] = 0]
            /\ UNCHANGED <<ret, cur, err, cause>>
    /\ UNCHANGED <<callers, made, dialOk, conf, conns, closeCalled, op, act, log,
                   effects, attempts, fails, runStage>>

\* rc.inner = inner; return err
RcStore(p) ==
    /\ pc[p] = "rc_store"
    /\ inner' = newInner[p]
    /\ cbArg' = [cbArg EXCEPT ![p] = Nil]
    /\ IF Head(stack[p]) = "caller"
       THEN Return(p, err[p])
       ELSE /\ pc' = [pc EXCEPT ![p] = Head(stack[p])]
            /\ stack' = [stack EXCEPT ![p] = Tail(@)]
            /\ newInner' = [newInner EXCEPT ![p] = 0]
            /\ UNCHANGED <<ret, cur, err, cause>>
    /\ UNCHANGED <<callers, made, dialOk, conf, conns, closeCalled, op, act, log,
                   effects, attempts, fails, runStage>>

\* --------------------------------------------------------- ReconnectLoop
\* The caller calls rc.ReconnectLoop(cause) itself.
ReconnectLoopStart(p) ==
    /\ made
    /\ Begin(p, "ReconnectLoop", NoAction)
    /\ \E c \in {Nil, ErrTimeout} : cause' = [cause EXCEPT ![p] = c]
    /\ log' = [log EXCEPT ![p] = <<>>]
    /\ ret' = [ret EXCEPT ![p] = Nil]
    /\ stack' = Push(p, "caller")
    /\ pc' = [pc EXCEPT ![p] = "rl_call"]
    /\ UNCHANGED <<callers, wvars, cur, err, newInner>>

\* err := rc.Reconnect(cause)
RlCall(p) ==
    /\ pc[p] = "rl_call"
    /\ stack' = Push(p, "rl_check")
    /\ pc' = [pc EXCEPT ![p] = "rc_close"]
    /\ UNCHANGED <<callers, wvars, op, act, cur, err, cause, newInner, cbArg,
                   ret, log, effects, attempts, fails, runStage>>

\* ReconnectLoop without cause = err: every attempt gets the first cause.
RlCheckKeepCause(p) ==
    /\ pc[p] = "rl_check"
    /\ IF err[p] = Nil
       THEN /\ IF Head(stack[p]) = "caller"
               THEN Return(p, Nil)
               ELSE /\ pc' = [pc EXCEPT ![p] = Head(stack[p])]
                    /\ stack' = [stack EXCEPT ![p] = Tail(@)]
                    /\ cause' = [cause EXCEPT ![p] = Nil]
                    /\ UNCHANGED <<ret, cur, err, newInner>>
            /\ UNCHANGED log
       ELSE /\ err' = [err EXCEPT ![p] = Nil]
            /\ log' = Logged(p, <<Ev("sleep", ReconnectSleepMs)>>)
            /\ pc' = [pc EXCEPT ![p] = "rl_call"]
            /\ UNCHANGED <<stack, ret, cur, newInner, cause>>
    /\ UNCHANGED <<callers, wvars, op, act, cbArg, effects, attempts, fails,
                   runStage>>

\* ReconnectLoop sleeping before it looks at err: a sleep after every
\* Reconnect, the successful one too.
RlCheckSleepAlways(p) ==
    /\ pc[p] = "rl_check"
    /\ log' = Logged(p, <<Ev("sleep", ReconnectSleepMs)>>)
    /\ IF err[p] = Nil
       THEN IF Head(stack[p]) = "caller"
            THEN Return(p, Nil)
            ELSE /\ pc' = [pc EXCEPT ![p] = Head(stack[p])]
                 /\ stack' = [stack EXCEPT ![p] = Tail(@)]
                 /\ cause' = [cause EXCEPT ![p] = Nil]
                 /\ UNCHANGED <<ret, cur, err, newInner>>
       ELSE /\ cause' = [cause EXCEPT ![p] = err[p]]
            /\ err' = [err EXCEPT ![p] = Nil]
            /\ pc' = [pc EXCEPT ![p] = "rl_call"]
            /\ UNCHANGED <<stack, ret, cur, newInner>>
    /\ UNCHANGED <<callers, wvars, op, act, cbArg, effects, attempts, fails,
                   runStage>>

\* if err == nil { return nil }; cause = err; time.Sleep(500ms)
RlCheck(p) ==
    /\ pc[p] = "rl_check"
    /\ IF err[p] = Nil
       THEN /\ IF Head(stack[p]) = "caller"
               THEN Return(p, Nil)
               ELSE /\ pc' = [pc EXCEPT ![p] = Head(stack[p])]
                    /\ stack' = [stack EXCEPT ![p] = Tail(@)]
                    /\ cause' = [cause EXCEPT ![p] = Nil]
                    /\ UNCHANGED <<ret, cur, err, newInner>>
            /\ UNCHANGED log
       ELSE /\ cause' = [cause EXCEPT ![p] = err[p]]
            /\ err' = [err EXCEPT ![p] = Nil]
            /\ log' = Logged(p, <<Ev("sleep", ReconnectSleepMs)>>)
            /\ pc' = [pc EXCEPT ![p] = "rl_call"]
            /\ UNCHANGED <<stack, ret, cur, newInner>>
    /\ UNCHANGED <<callers, wvars, op, act, cbArg, effects, attempts, fails,
                   runStage>>

\* ---------------------------------------------------------------- actions
\* a.Keys(), called by the caller between its wrapper calls
KeysCall(p) ==
    /\ pc[p] = "idle"
    /\ act[p] # NoAction
    /\ act' = [act EXCEPT ![p] = Keys(@)]
    /\ UNCHANGED <<callers, wvars, pc, locals, op, cbArg, ret, log, effects,
                   attempts, fails, runStage>>

\* -------------------------------------------------------------------- Do
\* rc.Do(a), a built by Cmd(...) or FlatCmd(...) for this call
DoStart(p) ==
    /\ made
    /\ \E a \in NewActions : Begin(p, "Do", a)
    /\ ret' = [ret EXCEPT ![p] = Nil]
    /\ log' = [log EXCEPT ![p] = <<>>]
    /\ pc' = [pc EXCEPT ![p] = "do_attempt"]
    /\ UNCHANGED <<callers, wvars, locals>>

\* Do checking for an absent inner and reconnecting: if rc.inner == nil,
\* run ReconnectLoop before the attempt.
DoAttemptRepair(p) ==
    /\ pc[p] = "do_attempt"
    /\ attempts[p] < MaxAttempts
    /\ cbArg' = [cbArg EXCEPT ![p] = Nil]
    /\ IF inner = 0
       THEN /\ stack' = Push(p, "do_attempt")
            /\ pc' = [pc EXCEPT ![p] = "rl_call"]
            /\ UNCHANGED <<attempts, log, cur, err, cause, newInner, ret>>
       ELSE /\ cur' = [cur EXCEPT ![p] = inner]
            /\ err' = [err EXCEPT ![p] = Nil]
            /\ attempts' = [attempts EXCEPT ![p] = @ + 1]
            /\ log' = Logged(p, <<Ev("attempt", inner)>>)
            /\ pc' = [pc EXCEPT ![p] = "run_encode"]
            /\ UNCHANGED <<stack, cause, newInner, ret>>
    /\ UNCHANGED <<callers, wvars, op, act, effects, fails, runStage>>

\* err := rc.inner.Do(a), which is a.Run(rc.inner)
DoAttempt(p) ==
    /\ pc[p] = "do_attempt"
    /\ attempts[p] < MaxAttempts
    /\ cbArg' = [cbArg EXCEPT ![p] = Nil]
    /\ IF inner = 0
       THEN /\ Panic(p)
            /\ UNCHANGED <<attempts, log>>
       ELSE /\ cur' = [cur EXCEPT ![p] = inner]
            /\ err' = [err EXCEPT ![p] = Nil]
            /\ attempts' = [attempts EXCEPT ![p] = @ + 1]
            /\ log' = Logged(p, <<Ev("attempt", inner)>>)
            /\ pc' = [pc EXCEPT ![p] = "run_encode"]
            /\ UNCHANGED <<stack, cause, newInner, ret>>
    /\ UNCHANGED <<callers, wvars, op, act, effects, fails, runStage>>

\* What conn.Encode(r) can return on connection c.
EncodeResults(c) ==
    IF conns[c] = "closed" THEN {ErrClosed} ELSE {Nil} \cup EncodeErrs

\* What conn.Decode(r) can return on connection c.
DecodeResults(c) ==
    IF conns[c] = "closed" THEN {ErrClosed} ELSE {Nil} \cup DecodeErrs

\* How often the server executed a command whose reply decoded as e: once
\* when the reply arrived, not at all when the server rejected it, either
\* when the connection failed before the reply was read.
Executions(e) ==
    IF e.nil THEN {1} ELSE IF e.net THEN {0, 1} ELSE {0}

\* The log entry for what one Run on connection c returned.
ResultEv(e, c) ==
    Ev(IF e.nil THEN "ok" ELSE IF e.net THEN "neterr" ELSE "err", c)

\* Run without the check of Encode's error: conn.Encode(r); return
\* conn.Decode(r).
RunEncodeIgnoreErr(p) ==
    /\ pc[p] = "run_encode"
    /\ act' = [act EXCEPT ![p] = MarshalRESP(@)]
    /\ \E e \in EncodeResults(cur[p]) :
          /\ pc' = [pc EXCEPT ![p] = "run_decode"]
          /\ log' = IF e = Nil THEN log ELSE Logged(p, <<ResultEv(e, cur[p])>>)
          /\ UNCHANGED <<err, runStage>>
    /\ UNCHANGED <<callers, wvars, stack, op, cur, cause, newInner, cbArg,
                   ret, effects, attempts, fails>>

\* Run: if err := conn.Encode(r); err != nil { return err }
RunEncode(p) ==
    /\ pc[p] = "run_encode"
    /\ act' = [act EXCEPT ![p] = MarshalRESP(@)]
    /\ \E e \in EncodeResults(cur[p]) :
          IF e = Nil
          THEN /\ pc' = [pc EXCEPT ![p] = "run_decode"]
               /\ UNCHANGED <<err, runStage, log>>
          ELSE /\ err' = [err EXCEPT ![p] = e]
               /\ log' = Logged(p, <<ResultEv(e, cur[p])>>)
               /\ runStage' = [runStage EXCEPT ![p] = "encode"]
               /\ pc' = [pc EXCEPT ![p] = "do_check"]
    /\ UNCHANGED <<callers, wvars, stack, op, cur, cause, newInner, cbArg,
                   ret, effects, attempts, fails>>

\* UnmarshalRESP discarding the bound action only when the decode succeeded.
RunDecodeKeepOnError(p) ==
    /\ pc[p] = "run_decode"
    /\ \E e \in DecodeResults(cur[p]) :
          /\ act' = [act EXCEPT ![p] =
                        IF e = Nil THEN UnmarshalRESP(@) ELSE Unmarshalled(@)]
          /\ err' = [err EXCEPT ![p] = e]
          /\ log' = Logged(p, <<ResultEv(e, cur[p])>>)
          /\ \E n \in Executions(e) : effects' = [effects EXCEPT ![p] = @ + n]
    /\ runStage' = [runStage EXCEPT ![p] = "decode"]
    /\ pc' = [pc EXCEPT ![p] = "do_check"]
    /\ UNCHANGED <<callers, wvars, stack, op, cur, cause, newInner, cbArg,
                   ret, attempts, fails>>

\* Run: return conn.Decode(r)
RunDecode(p) ==
    /\ pc[p] = "run_decode"
    /\ act' = [act EXCEPT ![p] = UnmarshalRESP(@)]
    /\ \E e \in DecodeResults(cur[p]) :
          /\ err' = [err EXCEPT ![p] = e]
          /\ log' = Logged(p, <<ResultEv(e, cur[p])>>)
          /\ \E n \in Executions(e) : effects' = [effects EXCEPT ![p] = @ + n]
    /\ runStage' = [runStage EXCEPT ![p] = "decode"]
    /\ pc' = [pc EXCEPT ![p] = "do_check"]
    /\ UNCHANGED <<callers, wvars, stack, op, cur, cause, newInner, cbArg,
                   ret, attempts, fails>>

\* OnRetry called without the nil check.
OnRetryEvsAlways(p) == <<Ev("OnRetry", 0)>>

\* The OnRetry call of one loading retry, if the callback is set.
OnRetryEvs(p) ==
    IF conf.OnRetry THEN <<Ev("OnRetry", 0)>> ELSE <<>>

\* Do calling rc.ReconnectLoop(nil): the error of the attempt is not passed.
DoCheckNilCause(p) ==
    /\ pc[p] = "do_check"
    /\ LET todo == Classify(err[p]) IN
       \/ /\ todo = "return_nil"
          /\ Return(p, Nil)
          /\ UNCHANGED <<log, cbArg>>
       \/ /\ todo = "reconnect"
          /\ cause' = [cause EXCEPT ![p] = Nil]
          /\ err' = [err EXCEPT ![p] = Nil]
          /\ cur' = [cur EXCEPT ![p] = 0]
          /\ stack' = Push(p, "do_attempt")
          /\ pc' = [pc EXCEPT ![p] = "rl_call"]
          /\ UNCHANGED <<ret, log, newInner, cbArg>>
       \/ /\ todo = "retry"
          /\ cbArg' = [cbArg EXCEPT ![p] = IF conf.OnRetry THEN err[p] ELSE Nil]
          /\ log' = Logged(p, OnRetryEvs(p) \o <<Ev("sleep", LoadingSleepMs)>>)
          /\ pc' = [pc EXCEPT ![p] = "do_attempt"]
          /\ err' = [err EXCEPT ![p] = Nil]
          /\ cur' = [cur EXCEPT ![p] = 0]
          /\ UNCHANGED <<stack, cause, ret, newInner>>
       \/ /\ todo = "return_err"
          /\ Return(p, err[p])
          /\ UNCHANGED <<log, cbArg>>
    /\ UNCHANGED <<callers, wvars, op, act, effects, attempts, fails,
                   runStage>>

\* Do with the sleep inside the OnRetry check: without the callback a LOADING
\* reply is retried at once.
DoCheckSleepInIf(p) ==
    /\ pc[p] = "do_check"
    /\ LET todo == Classify(err[p]) IN
       \/ /\ todo = "return_nil"
          /\ Return(p, Nil)
          /\ UNCHANGED <<log, cbArg>>
       \/ /\ todo = "reconnect"
          /\ cause' = [cause EXCEPT ![p] = err[p]]
          /\ err' = [err EXCEPT ![p] = Nil]
          /\ cur' = [cur EXCEPT ![p] = 0]
          /\ stack' = Push(p, "do_attempt")
          /\ pc' = [pc EXCEPT ![p] = "rl_call"]
          /\ UNCHANGED <<ret, log, newInner, cbArg>>
       \/ /\ todo = "retry"
          /\ cbArg' = [cbArg EXCEPT ![p] = IF conf.OnRetry THEN err[p] ELSE Nil]
          /\ log' = Logged(p, IF conf.OnRetry
                               THEN OnRetryEvs(p) \o <<Ev("sleep", LoadingSleepMs)>>
                               ELSE <<>>)
          /\ pc' = [pc EXCEPT ![p] = "do_attempt"]
          /\ err' = [err EXCEPT ![p] = Nil]
          /\ cur' = [cur EXCEPT ![p] = 0]
          /\ UNCHANGED <<stack, cause, ret, newInner>>
       \/ /\ todo = "return_err"
          /\ Return(p, err[p])
          /\ UNCHANGED <<log, cbArg>>
    /\ UNCHANGED <<callers, wvars, op, act, effects, attempts, fails,
                   runStage>>

\* Do with a retry cap: the third LOADING reply is returned to the caller.
DoCheckCapped(p) ==
    /\ pc[p] = "do_check"
    /\ LET todo == Classify(err[p]) IN
       \/ /\ todo = "return_nil"
          /\ Return(p, Nil)
          /\ UNCHANGED <<log, cbArg>>
       \/ /\ todo = "reconnect"
          /\ cause' = [cause EXCEPT ![p] = err[p]]
          /\ err' = [err EXCEPT ![p] = Nil]
          /\ cur' = [cur EXCEPT ![p] = 0]
          /\ stack' = Push(p, "do_attempt")
          /\ pc' = [pc EXCEPT ![p] = "rl_call"]
          /\ UNCHANGED <<ret, log, newInner, cbArg>>
       \/ /\ todo = "retry"
          /\ attempts[p] < 3
          /\ cbArg' = [cbArg EXCEPT ![p] = IF conf.OnRetry THEN err[p] ELSE Nil]
          /\ log' = Logged(p, OnRetryEvs(p) \o <<Ev("sleep", LoadingSleepMs)>>)
          /\ pc' = [pc EXCEPT ![p] = "do_attempt"]
          /\ err' = [err EXCEPT ![p] = Nil]
          /\ cur' = [cur EXCEPT ![p] = 0]
          /\ UNCHANGED <<stack, cause, ret, newInner>>
       \/ /\ todo = "return_err" \/ (todo = "retry" /\ attempts[p] >= 3)
          /\ Return(p, err[p])
          /\ UNCHANGED <<log, cbArg>>
    /\ UNCHANGED <<callers, wvars, op, act, effects, attempts, fails,
                   runStage>>

\* The rest of one iteration of Do's loop.
DoCheck(p) ==
    /\ pc[p] = "do_check"
    /\ LET todo == Classify(err[p]) IN
       \/ /\ todo = "return_nil"
          /\ Return(p, Nil)
          /\ UNCHANGED <<log, cbArg>>
       \/ /\ todo = "reconnect"
          /\ cause' = [cause EXCEPT ![p] = err[p]]
          /\ err' = [err EXCEPT ![p] = Nil]
          /\ cur' = [cur EXCEPT ![p] = 0]
          /\ stack' = Push(p, "do_attempt")
          /\ pc' = [pc EXCEPT ![p] = "rl_call"]
          /\ UNCHANGED <<ret, log, newInner, cbArg>>
       \/ /\ todo = "retry"
          /\ cbArg' = [cbArg EXCEPT ![p] = IF conf.OnRetry THEN err[p] ELSE Nil]
          /\ log' = Logged(p, OnRetryEvs(p) \o <<Ev("sleep", LoadingSleepMs)>>)
          /\ pc' = [pc EXCEPT ![p] = "do_attempt"]
          /\ err' = [err EXCEPT ![p] = Nil]
          /\ cur' = [cur EXCEPT ![p] = 0]
          /\ UNCHANGED <<stack, cause, ret, newInner>>
       \/ /\ todo = "return_err"
          /\ Return(p, err[p])
          /\ UNCHANGED <<log, cbArg>>
    /\ UNCHANGED <<callers, wvars, op, act, effects, attempts, fails,
                   runStage>>

\* ------------------------------------------------- Close and forwarders
\* rc.Close(): return rc.inner.Close()
CloseCall(p) ==
    /\ made
    /\ Begin(p, "Close", NoAction)
    /\ IF inner = 0
       THEN /\ Panic(p)
            /\ log' = [log EXCEPT ![p] = <<>>]
            /\ UNCHANGED <<conns, closeCalled>>
       ELSE /\ conns' = [conns EXCEPT ![inner] = "closed"]
            /\ closeCalled' = TRUE
            /\ log' = [log EXCEPT ![p] = <<Ev("close", inner)>>]
            /\ Return(p, IF conns[inner] = "closed" THEN ErrClosed ELSE Nil)
    /\ UNCHANGED <<callers, made, dialOk, inner, conf>>

\* rc.Encode(m): return rc.inner.Encode(m)
EncodeCall(p) ==
    /\ made
    /\ Begin(p, "Encode", NoAction)
    /\ log' = [log EXCEPT ![p] = <<>>]
    /\ IF inner = 0
       THEN Panic(p)
       ELSE \E e \in EncodeResults(inner) : Return(p, e)
    /\ UNCHANGED <<callers, wvars>>

\* rc.Decode(um): return rc.inner.Decode(um)
DecodeCall(p) ==
    /\ made
    /\ Begin(p, "Decode", NoAction)
    /\ log' = [log EXCEPT ![p] = <<>>]
    /\ IF inner = 0
       THEN Panic(p)
       ELSE \E e \in DecodeResults(inner) : Return(p, e)
    /\ UNCHANGED <<callers, wvars>>

\* rc.NetConn(): return rc.inner.NetConn()
NetConnCall(p) ==
    /\ made
    /\ Begin(p, "NetConn", NoAction)
    /\ IF inner = 0
       THEN Panic(p) /\ log' = [log EXCEPT ![p] = <<>>]
       ELSE /\ Return(p, Nil)
            /\ log' = [log EXCEPT ![p] = <<Ev("netconn", inner)>>]
    /\ UNCHANGED <<callers, wvars>>

\* ------------------------------------------------------------ specification
Next ==
    \/ \E p \in callers : DialStart(p)
    \/ \E p \in callers : DialReturn(p)
    \/ \E p \in callers : ReconnectStart(p)
    \/ \E p \in callers : RcClose(p)
    \/ \E p \in callers : RcDial(p)
    \/ \E p \in callers : RcStore(p)
    \/ \E p \in callers : ReconnectLoopStart(p)
    \/ \E p \in callers : RlCall(p)
    \/ \E p \in callers : RlCheck(p)
    \/ \E p \in callers : KeysCall(p)
    \/ \E p \in callers : DoStart(p)
    \/ \E p \in callers : DoAttempt(p)
    \/ \E p \in callers : RunEncode(p)
    \/ \E p \in callers : RunDecode(p)
    \/ \E p \in callers : DoCheck(p)
    \/ \E p \in callers : CloseCall(p)
    \/ \E p \in callers : EncodeCall(p)
    \/ \E p \in callers : DecodeCall(p)
    \/ \E p \in callers : NetConnCall(p)

Spec == Init /\ [][Next]_vars

\* ------------------------------------------- the loops, run without an end
\* Process p is at the head of a loop with nothing on record: no log, no
\* count but the attempts made, no connection besides inner.
Clean(p) ==
    /\ log[p] = <<>>
    /\ Len(conns) <= 1
    /\ attempts[p] < MaxAttempts
    /\ fails[p] = 0
    /\ effects[p] = 0
    /\ act[p].inner.marshals = 0

\* What the model keeps about a running call beyond the program's own state
\* (the log, the counts, the connections nothing refers to any more) is
\* dropped at the head of Do's and of ReconnectLoop's loop, so that the loops
\* can go round for ever. attempts stays, up to its bound.
Forget(p) ==
    /\ pc[p] \in {"do_attempt", "rl_call"}
    /\ ~Clean(p)
    /\ log' = [log EXCEPT ![p] = <<>>]
    /\ attempts' = [attempts EXCEPT ![p] =
                       IF @ = MaxAttempts THEN MaxAttempts - 1 ELSE @]
    /\ fails' = [fails EXCEPT ![p] = 0]
    /\ effects' = [effects EXCEPT ![p] = 0]
    /\ act' = [act EXCEPT ![p].inner.marshals = 0]
    /\ conns' = IF inner = 0 THEN <<>> ELSE <<conns[inner]>>
    /\ inner' = IF inner = 0 THEN 0 ELSE 1
    /\ UNCHANGED <<callers, made, dialOk, conf, closeCalled, pc, locals, op,
                   cbArg, ret, runStage>>

\* An iteration of ReconnectLoop's and of Do's loop, started clean.
RlCallClean(p) == Clean(p) /\ RlCall(p)
DoAttemptClean(p) == Clean(p) /\ DoAttempt(p)

\* One step of the call process p is in.
Running(p) ==
    \/ DialReturn(p)
    \/ RcClose(p)
    \/ RcDial(p)
    \/ RcStore(p)
    \/ RlCallClean(p)
    \/ RlCheck(p)
    \/ DoAttemptClean(p)
    \/ RunEncode(p)
    \/ RunDecode(p)
    \/ DoCheck(p)
    \/ Forget(p)

\* radix.Dial returns a connection.
DialSucceeds(p) == RcDial(p) /\ err'[p] = Nil

\* conn.Encode(r) returns nil.
EncodeSucceeds(p) == RunEncode(p) /\ pc'[p] = "run_decode"

\* conn.Decode(r) returns nil or an error Do does not retry.
DecodeSettles(p) ==
    RunDecode(p) /\ ~IsNetError(err'[p]) /\ ~IsLoadingError(err'[p])

LiveNext ==
    \/ \E p \in callers : DialStart(p)
    \/ \E p \in callers : DialReturn(p)
    \/ \E p \in callers : ReconnectLoopStart(p)
    \/ \E p \in callers : RcClose(p)
    \/ \E p \in callers : RcDial(p)
    \/ \E p \in callers : RcStore(p)
    \/ \E p \in callers : RlCallClean(p)
    \/ \E p \in callers : RlCheck(p)
    \/ \E p \in callers : DoStart(p)
    \/ \E p \in callers : DoAttemptClean(p)
    \/ \E p \in callers : RunEncode(p)
    \/ \E p \in callers : RunDecode(p)
    \/ \E p \in callers : DoCheck(p)
    \/ \E p \in callers : Forget(p)

\* A goroutine that is in a call keeps running; the server is reachable again
\* and again, and the command is answered for good again and again.
Fairness ==
    \A p \in Procs :
        /\ WF_vars(Running(p))
        /\ SF_vars(DialSucceeds(p))
        /\ SF_vars(EncodeSucceeds(p))
        /\ SF_vars(DecodeSettles(p))

SpecLive == Init /\ [][LiveNext]_vars /\ Fairness

\* ------------------------------------------- two goroutines, one wrapper
\* Two callers share the wrapper: the first one dials, then each calls Do
\* once, at any time, with nothing between them but the wrapper itself.
ConcDial(p) ==
    /\ p = 1
    /\ DialStart(p)
    /\ conf' = [OnReconnect |-> FALSE, OnRetry |-> FALSE]
ConcDo(p) ==
    /\ dialOk
    /\ op[p] # "Do"
    /\ DoStart(p)
    /\ act'[p].variant = "Cmd"

\* The server is reachable and answers every command it reads; a connection
\* times out or is closed under the caller, and nothing else goes wrong.
ConcRcDial(p) == RcDial(p) /\ err'[p] = Nil
ConcEncode(p) == RunEncode(p) /\ err'[p] \in {Nil, ErrClosed}
ConcDecode(p) ==
    /\ RunDecode(p)
    /\ err'[p] \in {Nil, ErrTimeout, ErrClosed}
    /\ effects'[p] = effects[p] + (IF err'[p] = Nil THEN 1 ELSE 0)

ConcNext ==
    \/ \E p \in callers : ConcDial(p)
    \/ \E p \in callers : DialReturn(p)
    \/ \E p \in callers : RcClose(p)
    \/ \E p \in callers : ConcRcDial(p)
    \/ \E p \in callers : RcStore(p)
    \/ \E p \in callers : RlCall(p)
    \/ \E p \in callers : RlCheck(p)
    \/ \E p \in callers : ConcDo(p)
    \/ \E p \in callers : DoAttempt(p)
    \/ \E p \in callers : ConcEncode(p)
    \/ \E p \in callers : ConcDecode(p)
    \/ \E p \in callers : DoCheck(p)

SpecConc == InitWith(Procs) /\ [][ConcNext]_vars


\* ================================================================== claims
\* The errors of the model that are neither network-level nor begin with
\* LOADING.
TerminalErrs == {ErrWrongType, ErrMidLoading, ErrMarshal}

CountEv(l, kind) == Cardinality({i \in DOMAIN l : l[i].ev = kind})
CountSleep(l, ms) == Cardinality({i \in DOMAIN l : l[i] = Ev("sleep", ms)})
OpenConns == {c \in DOMAIN conns : conns[c] = "open"}

\* C1. Terminal passthrough: when an attempt inside Do fails with an error
\* that is neither network-level nor begins with LOADING, the next step of
\* Do returns exactly that error, with no sleep, no close, no dial and no
\* callback in response to it, and inner is the connection it was.
C1_TerminalPassthrough ==
    [][\A p \in callers :
          (pc[p] = "do_check" /\ err[p] \in TerminalErrs) =>
              /\ pc'[p] = "idle"
              /\ ret'[p] = err[p]
              /\ log'[p] = log[p]
              /\ cbArg'[p] = Nil
              /\ inner' = inner
              /\ inner' = cur[p]
              /\ conns' = conns]_vars

\* Scenario C: the first reply is WRONGTYPE and Do has returned it.
C1_Witness ==
    \E p \in callers :
        /\ pc[p] = "idle" /\ op[p] = "Do"
        /\ ret[p] = ErrWrongType
        /\ log[p] = <<Ev("attempt", inner), Ev("err", inner)>>

\* C2. Only terminal errors cross the Do boundary: what Do returns is nil or
\* an error that is neither network-level nor begins with LOADING; never a
\* network error, a LOADING error or the error of a failed dial.
C2_OnlyTerminalErrorsReturned ==
    \A p \in callers :
        (pc[p] = "idle" /\ op[p] = "Do") =>
            /\ ret[p] \in {Nil} \cup TerminalErrs
            /\ ret[p] \notin DialErrs \cup {ErrTimeout, ErrClosed, ErrLoading}

\* Do has returned nil after a LOADING reply, a network error and a failed
\* dial.
C2_Witness ==
    \E p \in callers :
        /\ pc[p] = "idle" /\ op[p] = "Do" /\ ret[p] = Nil
        /\ CountEv(log[p], "neterr") > 0
        /\ CountSleep(log[p], 250) > 0
        /\ \E i \in DOMAIN log[p] : log[p][i] = Ev("dial", 0)

\* The place in l of the last attempt before the last entry, 0 if none.
PrevAttempt(l) ==
    LET at == {i \in 1..(Len(l) - 1) : l[i].ev = "attempt"} IN
    IF at = {} THEN 0 ELSE CHOOSE i \in at : \A j \in at : j <= i

\* C3. Network-error reconnect ordering: the attempt that follows an attempt
\* failed with a network error comes right after a successful dial, runs on
\* the connection that dial produced, and that is not the connection the
\* error occurred on, which was closed in between. (Stated where the attempt
\* has just been made: the log of a call only grows.)
C3_ReconnectBeforeReissue ==
    \A p \in callers :
        (op[p] = "Do" /\ pc[p] = "run_encode") =>
            LET l == log[p]
                k == Len(l)
                i == PrevAttempt(l) + 1
            IN  /\ l[k] = Ev("attempt", cur[p])
                /\ (i > 1 /\ l[i].ev = "neterr") =>
                      /\ l[k - 1].ev = "dial"
                      /\ l[k - 1].n = l[k].n
                      /\ l[k].n # 0
                      /\ l[k].n # l[i].n
                      /\ \E j \in (i + 1)..(k - 1) : l[j] = Ev("close", l[i].n)

\* After a network error on connection 1 and a failed dial, the action is
\* running again, on connection 2.
C3_Witness ==
    \E p \in callers :
        /\ pc[p] = "run_encode" /\ op[p] = "Do"
        /\ cur[p] = 2 /\ inner = 2 /\ conns = <<"closed", "open">>
        /\ \E i \in DOMAIN log[p] : log[p][i] = Ev("neterr", 1)
        /\ \E i \in DOMAIN log[p] : log[p][i] = Ev("dial", 0)
        /\ log[p][Len(log[p])] = Ev("attempt", 2)

\* The step Do takes on a LOADING reply.
C4_Step ==
    \A p \in callers :
        (pc[p] = "do_check" /\ err[p] = ErrLoading) =>
            /\ pc'[p] = "do_attempt"
            /\ inner' = inner
            /\ conns' = conns
            /\ log'[p] = log[p]
                          \o (IF conf.OnRetry THEN <<Ev("OnRetry", 0)>> ELSE <<>>)
                          \o <<Ev("sleep", 250)>>
            /\ cbArg'[p] = (IF conf.OnRetry THEN ErrLoading ELSE Nil)

\* A Do whose failed attempts all were LOADING replies and that returned nil.
C4_Counts ==
    \A p \in callers :
        (/\ pc[p] = "idle" /\ op[p] = "Do" /\ ret[p] = Nil
         /\ CountEv(log[p], "neterr") = 0) =>
            LET n == CountEv(log[p], "err") IN
            /\ CountEv(log[p], "attempt") = n + 1
            /\ CountSleep(log[p], 250) = n
            /\ CountEv(log[p], "sleep") = n
            /\ CountEv(log[p], "OnRetry") = (IF conf.OnRetry THEN n ELSE 0)
            /\ CountEv(log[p], "dial") = 0
            /\ CountEv(log[p], "close") = 0
            /\ CountEv(log[p], "OnReconnect") = 0
            /\ \A i \in DOMAIN log[p] :
                  log[p][i].ev = "attempt" => log[p][i].n = inner

\* C4. Loading retry: on a LOADING reply Do neither closes nor replaces
\* inner, calls OnRetry once with that error if it is set, sleeps 250ms once
\* and issues the action again on the same connection; n LOADING replies and
\* then a success give n OnRetry calls, n sleeps of 250ms, no reconnect, and
\* nil.
C4_LoadingRetry == []C4_Counts /\ [][C4_Step]_vars

\* Scenario B: three LOADING replies, then success, with OnRetry set.
C4_Witness ==
    \E p \in callers :
        /\ pc[p] = "idle" /\ op[p] = "Do" /\ ret[p] = Nil
        /\ conf.OnRetry
        /\ CountEv(log[p], "err") = 3
        /\ CountEv(log[p], "OnRetry") = 3
        /\ CountSleep(log[p], 250) = 3

\* C5. No duplicate side effects from retry: the command of one Do takes
\* effect on the server at most once, and exactly once when Do returns nil.
C5_NoDuplicateEffects ==
    \A p \in callers :
        op[p] = "Do" =>
            /\ effects[p] <= 1
            /\ (pc[p] = "idle" /\ ret[p] = Nil) => effects[p] = 1

\* C6. Close is terminal: once Close was called, a later Do, Encode or Decode
\* does not return nil and inner is never again a live connection.
C6_CloseIsTerminal ==
    closeCalled =>
        /\ inner = 0 \/ conns[inner] = "closed"
        /\ \A p \in callers :
              (pc[p] = "idle" /\ op[p] \in {"Do", "Encode", "Decode"}) =>
                  ret[p] # Nil

\* C7. At most one live inner: at most one connection the wrapper dialed is
\* open, and a connection about to be replaced by a dialed one is closed
\* already.
C7_AtMostOneLive ==
    /\ Cardinality(OpenConns) <= 1
    /\ \A p \in callers :
          (pc[p] = "rc_store" /\ newInner[p] # 0 /\ inner # 0) =>
              conns[inner] = "closed"

\* Connection 1 was replaced by connection 2.
C7_Witness ==
    /\ conns = <<"closed", "open">>
    /\ inner = 2
    /\ \A p \in callers : pc[p] = "idle"

\* C8. Inner never absent after successful Dial: once Dial has returned
\* without error, no call starts or returns with inner absent.
C8_InnerNeverAbsent ==
    (made /\ dialOk) =>
        \A p \in callers :
            /\ pc[p] # "panic"
            /\ pc[p] = "idle" => inner # 0

\* What Dial has done while it runs and when it has returned.
C9_Dial ==
    \A p \in callers :
        op[p] = "Dial" =>
            /\ cause[p] = Nil
            /\ CountEv(log[p], "sleep") = 0
            /\ CountEv(log[p], "close") = 0
            /\ CountEv(log[p], "dial") <= 1
            /\ pc[p] = "idle" =>
                  /\ made
                  /\ CountEv(log[p], "dial") = 1
                  /\ CountEv(log[p], "OnReconnect")
                        = (IF conf.OnReconnect THEN 1 ELSE 0)
                  /\ ret[p] = Nil =>
                        /\ inner # 0
                        /\ conns[inner] = "open"
                        /\ log[p][Len(log[p])] = Ev("dial", inner)
                  /\ ret[p] # Nil =>
                        /\ ret[p] \in DialErrs
                        /\ inner = 0
                        /\ log[p][Len(log[p])] = Ev("dial", 0)

\* What Dial returns is what its Reconnect returned.
C9_Return ==
    \A p \in callers :
        (pc[p] = "dial_ret" /\ pc'[p] # "dial_ret") =>
            /\ pc'[p] = "idle"
            /\ ret'[p] = err[p]
            /\ made'

\* C9. First dial is not retried: Dial makes one Reconnect with cause nil,
\* that is one transport dial, and no sleep; when the dial fails Dial returns
\* the dial error with a wrapper, when it succeeds it returns nil with inner
\* the dialed connection.
C9_FirstDialNotRetried == []C9_Dial /\ [][C9_Return]_vars

\* Dial has returned connection refused, and a wrapper with inner absent.
C9_Witness ==
    \E p \in callers :
        /\ pc[p] = "idle" /\ op[p] = "Dial"
        /\ ret[p] = ErrRefused
        /\ made /\ inner = 0

\* The radix action an action's parameters describe, never marshalled.
Expected(r) ==
    IF r.variant = "FlatCmd"
    THEN [kind |-> "FlatCmd", rcv |-> r.rcv, cmd |-> r.cmd,
          args |-> <<r.key>> \o r.args, marshals |-> 0, used |-> FALSE]
    ELSE [kind |-> "Cmd", rcv |-> r.rcv, cmd |-> r.cmd, args |-> r.args,
          marshals |-> 0, used |-> FALSE]

\* C10 as stated. Bound-action reset after Run: after any completed Run,
\* whether it succeeded, failed in Encode or failed in Decode, the bound
\* radix action is absent.
C10_ResetAfterEveryRun ==
    \A p \in callers : pc[p] = "do_check" => act[p].inner = NoInner

\* C10 as amended. After a Run that reached Decode the bound radix action is
\* absent, and the Run after it marshals a new radix action built from the
\* same receiver, command, key and arguments; after a Run that failed in
\* Encode the bound radix action is still present, and the Run after it
\* marshals that same object again.
C10_ResetAfterDecode ==
    \A p \in callers :
        /\ (pc[p] = "do_check" /\ runStage[p] = "decode") =>
              act[p].inner = NoInner
        /\ (pc[p] = "do_check" /\ runStage[p] = "encode") =>
              /\ act[p].inner # NoInner
              /\ [act[p].inner EXCEPT !.marshals = 0] = Expected(act[p])
        /\ pc[p] = "run_decode" =>
              /\ [act[p].inner EXCEPT !.marshals = 0] = Expected(act[p])
              /\ runStage[p] \in {"none", "decode"} => act[p].inner.marshals = 1
              /\ runStage[p] = "encode" => act[p].inner.marshals > 1

\* The third Run of a flat command is decoding: the first Run failed in
\* Decode, the second in Encode, so the third marshalled the second's radix
\* action again.
C10_Witness ==
    \E p \in callers :
        /\ pc[p] = "run_decode"
        /\ attempts[p] = 3
        /\ runStage[p] = "encode"
        /\ act[p].variant = "FlatCmd"
        /\ act[p].inner.marshals = 2

\* The network-level errors an attempt can fail with.
AttemptNetErrs == {e \in EncodeErrs \cup DecodeErrs \cup {ErrClosed} : IsNetError(e)}

\* The entries of l after its last attempt.
SinceAttempt(l) ==
    LET at == {i \in DOMAIN l : l[i].ev = "attempt"} IN
    IF at = {} THEN l
    ELSE SubSeq(l, (CHOOSE i \in at : \A j \in at : j <= i) + 1, Len(l))

\* Inside Do, OnReconnect is called once before every transport dial when it
\* is set, and never when it is not.
C11_Once ==
    \A p \in callers :
        op[p] = "Do" =>
            /\ CountEv(log[p], "OnReconnect")
                  = (IF conf.OnReconnect THEN CountEv(log[p], "dial") ELSE 0)
            /\ \A i \in DOMAIN log[p] :
                  (conf.OnReconnect /\ log[p][i].ev = "dial") =>
                      /\ i > 1
                      /\ log[p][i - 1].ev = "OnReconnect"

\* C11 as stated. Reconnect callback per attempt: inside Do, OnReconnect fires
\* once per Reconnect attempt and every invocation receives as its cause the
\* network-level error of the attempt that triggered the reconnect.
C11_CauseIsTrigger ==
    /\ C11_Once
    /\ \A p \in callers :
          (op[p] = "Do" /\ pc[p] = "rc_store" /\ conf.OnReconnect) =>
              cbArg[p] \in AttemptNetErrs

\* C11 as amended. Inside Do, OnReconnect fires once per Reconnect attempt
\* (as many invocations as transport dials); the first invocation of a
\* reconnect loop receives the network-level error of the attempt that
\* triggered it, every later one the dial error of the failed Reconnect
\* before it.
C11_CallbackPerAttempt ==
    /\ C11_Once
    /\ \A p \in callers :
          (op[p] = "Do" /\ pc[p] = "rc_store" /\ conf.OnReconnect) =>
              /\ cbArg[p] = cause[p]
              /\ IF CountEv(SinceAttempt(log[p]), "dial") = 1
                 THEN cbArg[p] \in AttemptNetErrs
                 ELSE cbArg[p] \in DialErrs

\* The second Reconnect of a loop inside Do has called OnReconnect with the
\* first one's dial error.
C11_Witness ==
    \E p \in callers :
        /\ op[p] = "Do" /\ pc[p] = "rc_store" /\ conf.OnReconnect
        /\ CountEv(log[p], "OnReconnect") = 2
        /\ CountEv(log[p], "dial") = 2
        /\ cbArg[p] = ErrAuth

RECURSIVE SleepMs(_)
\* The milliseconds slept in l.
SleepMs(l) ==
    IF l = <<>> THEN 0
    ELSE (IF Head(l).ev = "sleep" THEN Head(l).n ELSE 0) + SleepMs(Tail(l))

\* Failed dials in l.
FailedDials(l) == Cardinality({i \in DOMAIN l : l[i] = Ev("dial", 0)})

\* C12. Reconnect cycle counting: between an attempt of Do that failed with a
\* network error and the next attempt, k failed dials and then a successful
\* one make k + 1 Reconnect attempts and k sleeps of 500ms, one right after
\* each failed dial and none after the successful one, which the one next
\* attempt follows directly; Do has then slept at least 500ms per failed
\* dial (1000ms for k = 2), and returns nil when the re-issued action
\* succeeds. (The cycle is stated where the next attempt has just been made:
\* the log of a call only grows.)
C12_ReconnectCycles ==
    \A p \in callers :
        op[p] = "Do" =>
            /\ pc[p] = "run_encode" =>
                  LET l == log[p]
                      k == Len(l)
                      i == PrevAttempt(l) + 1
                  IN  (i > 1 /\ l[i].ev = "neterr") =>
                          LET seg == SubSeq(l, i + 1, k - 1) IN
                          /\ l[k].ev = "attempt"
                          /\ CountEv(seg, "dial") = FailedDials(seg) + 1
                          /\ CountEv(seg, "sleep") = FailedDials(seg)
                          /\ CountSleep(seg, 500) = FailedDials(seg)
                          /\ SleepMs(seg) = 500 * FailedDials(seg)
                          /\ \A j \in DOMAIN seg :
                                seg[j] = Ev("dial", 0) =>
                                    /\ j < Len(seg)
                                    /\ seg[j + 1] = Ev("sleep", 500)
                          /\ seg[Len(seg)].ev = "dial"
                          /\ seg[Len(seg)].n # 0
            /\ pc[p] = "idle" =>
                  /\ CountSleep(log[p], 500) = FailedDials(log[p])
                  /\ SleepMs(log[p]) >= 500 * FailedDials(log[p])
                  /\ (log[p] # <<>> /\ log[p][Len(log[p])].ev = "ok") =>
                        ret[p] = Nil

\* Scenario A: the first two dials failed, the third succeeded; Do slept
\* 1000ms, re-issued the action once and returned nil.
C12_Witness ==
    \E p \in callers :
        /\ pc[p] = "idle" /\ op[p] = "Do" /\ ret[p] = Nil
        /\ CountEv(log[p], "neterr") = 1
        /\ FailedDials(log[p]) = 2
        /\ CountEv(log[p], "dial") = 3
        /\ CountEv(log[p], "attempt") = 2
        /\ SleepMs(log[p]) = 1000

\* Do returns only from an attempt that yielded nil or an error that is
\* neither network-level nor begins with LOADING; ReconnectLoop ends only
\* with nil, right after a Reconnect that left an open connection in inner.
C13_Returns ==
    \A p \in callers :
        /\ (op[p] = "Do" /\ pc[p] \notin {"idle", "panic"} /\ pc'[p] = "idle") =>
              /\ pc[p] = "do_check"
              /\ ~IsNetError(err[p]) /\ ~IsLoadingError(err[p])
              /\ ret'[p] = err[p]
        /\ (op[p] = "Do" /\ pc[p] = "do_check"
            /\ (IsNetError(err[p]) \/ IsLoadingError(err[p]))) =>
              pc'[p] \in {"do_check", "rl_call", "do_attempt"}
        /\ (op[p] = "ReconnectLoop" /\ pc[p] \notin {"idle", "panic"}
            /\ pc'[p] = "idle") =>
              /\ pc[p] = "rl_check"
              /\ err[p] = Nil /\ ret'[p] = Nil
              /\ inner # 0 /\ conns[inner] = "open"
        /\ (pc[p] = "rl_check" /\ pc'[p] \notin {"rl_check", "rl_call"}) =>
              /\ err[p] = Nil
              /\ inner # 0 /\ conns[inner] = "open"
        /\ (pc[p] = "rl_check" /\ err[p] # Nil) =>
              pc'[p] \in {"rl_check", "rl_call"}

\* A Do or ReconnectLoop that was called returns (or faults).
C13_Ends ==
    \A p \in Procs :
        (op[p] \in {"Do", "ReconnectLoop"} /\ pc[p] \notin {"idle", "panic"})
            ~> (pc[p] \in {"idle", "panic"})

\* C13. Unbounded retry and eventual return: Do and ReconnectLoop have no
\* retry cap: they return only when an attempt yields nil or a terminal
\* error, respectively when a Reconnect succeeded (ReconnectLoop returns
\* only nil), and not while attempts yield network-level or LOADING errors
\* or dials fail; with a goroutine that keeps running, dials that succeed
\* again and again and an action that yields nil or a terminal error again
\* and again, every Do and every ReconnectLoop returns.
C13_UnboundedRetryEventualReturn == [][C13_Returns]_vars /\ C13_Ends

\* Do has returned nil after more attempts than the bound on attempts, the
\* record of all but the last dropped.
C13_Witness ==
    \E p \in callers :
        /\ op[p] = "Do" /\ pc[p] = "idle" /\ ret[p] = Nil
        /\ attempts[p] = MaxAttempts
        /\ CountEv(log[p], "attempt") = 1

\* l without the callback invocations: the closes, dials, attempts, their
\* results and the sleeps.
IsCallback(e) == e.ev \in {"OnReconnect", "OnRetry"}
Strip(l) == SelectSeq(l, LAMBDA e : ~IsCallback(e))

\* b is what comes after a in the closes, dials, attempts, results and sleeps
\* of Dial and Do; before is the entry before a.
Follows(before, a, b) ==
    CASE a.ev = "attempt" -> b.ev \in {"ok", "err", "neterr"} /\ b.n = a.n
      [] a.ev = "ok" -> FALSE
      [] a.ev = "err" -> b = Ev("sleep", 250)
      [] a.ev = "neterr" -> b = Ev("close", a.n)
      [] a.ev = "close" -> b.ev = "dial"
      [] a.ev = "dial" ->
            IF a.n = 0 THEN b = Ev("sleep", 500) ELSE b = Ev("attempt", a.n)
      [] a = Ev("sleep", 500) -> b.ev = "dial"
      [] a = Ev("sleep", 250) -> b = Ev("attempt", before.n)
      [] OTHER -> FALSE

\* What Dial and Do do and return does not depend on the callbacks.
C14_Same ==
    \A p \in callers :
        op[p] \in {"Dial", "Do"} =>
            LET l == Strip(log[p]) IN
            /\ \A i \in 1..(Len(l) - 1) :
                  Follows(IF i > 1 THEN l[i - 1] ELSE l[i], l[i], l[i + 1])
            /\ l # <<>> =>
                  l[1].ev = (IF op[p] = "Dial" THEN "dial" ELSE "attempt")
            /\ (pc[p] = "idle" /\ op[p] = "Dial") =>
                  /\ l = <<Ev("dial", inner)>>
                  /\ (ret[p] = Nil) = (inner # 0)
            /\ (pc[p] = "idle" /\ op[p] = "Do") =>
                  /\ l[Len(l)].ev \in {"ok", "err"}
                  /\ (ret[p] = Nil) = (l[Len(l)].ev = "ok")
                  /\ inner = l[Len(l)].n
            /\ pc[p] = "panic" => l = <<>>

\* The callbacks are called where they are set and skipped where they are
\* not: OnReconnect right before every dial, OnRetry right before every sleep
\* of 250ms.
C14_Skipped ==
    \A p \in callers :
        op[p] \in {"Dial", "Do"} =>
            /\ CountEv(log[p], "OnReconnect")
                  = (IF conf.OnReconnect THEN CountEv(log[p], "dial") ELSE 0)
            /\ CountEv(log[p], "OnRetry")
                  = (IF conf.OnRetry THEN CountSleep(log[p], 250) ELSE 0)
            /\ \A i \in DOMAIN log[p] :
                  /\ log[p][i].ev = "OnReconnect" =>
                        i < Len(log[p]) /\ log[p][i + 1].ev = "dial"
                  /\ log[p][i].ev = "OnRetry" =>
                        i < Len(log[p]) /\ log[p][i + 1] = Ev("sleep", 250)

\* A step of Dial or Do adds the same closes, dials, attempts and sleeps with
\* and without the callbacks: a LOADING reply one sleep of 250ms, a Reconnect
\* one dial, and no step faults on an absent callback.
C14_Step ==
    \A p \in callers :
        (op[p] \in {"Dial", "Do"} /\ pc'[p] # pc[p]) =>
            /\ (pc[p] = "do_check" /\ IsLoadingError(err[p])
                /\ ~IsNetError(err[p])) =>
                  /\ Strip(log'[p]) = Strip(log[p]) \o <<Ev("sleep", 250)>>
                  /\ pc'[p] = "do_attempt"
                  /\ inner' = inner
            /\ pc[p] = "rc_dial" =>
                  /\ Len(Strip(log'[p])) = Len(Strip(log[p])) + 1
                  /\ pc'[p] = "rc_store"
            /\ pc[p] \in {"rc_dial", "do_check"} => pc'[p] # "panic"

\* C14. Callbacks are observational only: with OnReconnect and OnRetry absent
\* or configured, for the same dial and action outcomes, Dial and Do perform
\* the same sequence of closes, dials, attempts and sleeps, end with the same
\* inner and return the same results; an absent callback is skipped.
C14_CallbacksObservational == [](C14_Same /\ C14_Skipped) /\ [][C14_Step]_vars

\* Without callbacks Do has been through a LOADING retry and a reconnect with
\* a failed dial, and returned nil.
C14_Witness ==
    \E p \in callers :
        /\ op[p] = "Do" /\ pc[p] = "idle" /\ ret[p] = Nil
        /\ ~conf.OnReconnect /\ ~conf.OnRetry
        /\ CountSleep(log[p], 250) = 1
        /\ CountSleep(log[p], 500) = 1
        /\ CountEv(log[p], "neterr") = 1
        /\ Strip(log[p]) = log[p]

\* The three steps of every Reconnect, whoever called it.
C15_Steps ==
    \A p \in callers :
        /\ (pc[p] = "rc_close" /\ pc'[p] # "rc_close") =>
              /\ pc'[p] = "rc_dial"
              /\ inner' = inner
              /\ IF inner # 0
                 THEN /\ conns' = [conns EXCEPT ![inner] = "closed"]
                      /\ log'[p] = log[p] \o <<Ev("close", inner)>>
                 ELSE /\ conns' = conns
                      /\ log'[p] = log[p]
        /\ (pc[p] = "rc_dial" /\ pc'[p] # "rc_dial") =>
              /\ pc'[p] = "rc_store"
              /\ inner' = inner
              /\ log'[p] = log[p]
                    \o (IF conf.OnReconnect THEN <<Ev("OnReconnect", 0)>> ELSE <<>>)
                    \o <<Ev("dial", newInner'[p])>>
              /\ cbArg'[p] = (IF conf.OnReconnect THEN cause[p] ELSE Nil)
              /\ (newInner'[p] = 0) = (err'[p] # Nil)
              /\ newInner'[p] # 0 =>
                    /\ newInner'[p] \notin DOMAIN conns
                    /\ conns' = Append(conns, "open")
              /\ newInner'[p] = 0 => conns' = conns /\ err'[p] \in DialErrs
        /\ (pc[p] = "rc_store" /\ pc'[p] # "rc_store") =>
              /\ inner' = newInner[p]
              /\ conns' = conns
              /\ log'[p] = log[p]
              /\ IF pc'[p] = "idle"
                 THEN ret'[p] = err[p]
                 ELSE pc'[p] \in {"dial_ret", "rl_check"} /\ err'[p] = err[p]

\* A Reconnect the caller made has returned.
C15_After ==
    \A p \in callers :
        (op[p] = "Reconnect" /\ pc[p] = "idle") =>
            LET l == Strip(log[p]) IN
            /\ \/ l = <<Ev("dial", inner)>>
               \/ /\ Len(l) = 2
                  /\ l[1].ev = "close"
                  /\ l[2] = Ev("dial", inner)
                  /\ conns[l[1].n] = "closed"
                  /\ inner # l[1].n
            /\ (ret[p] = Nil) = (inner # 0)
            /\ ret[p] # Nil =>
                  /\ ret[p] \in DialErrs
                  /\ inner = 0
                  /\ OpenConns = {}
            /\ ret[p] = Nil => OpenConns = {inner}

\* C15. Reconnect step order and store-regardless: every Reconnect closes the
\* previous inner if there is one, then calls OnReconnect if it is set, then
\* dials once, then stores the dial's result as inner whether or not the dial
\* succeeded, and returns the dial error; after a failed Reconnect the
\* previous connection is closed and not referenced, inner is absent, and the
\* next Reconnect closes nothing.
C15_ReconnectOrder == []C15_After /\ [][C15_Steps]_vars

\* A Reconnect after a failed Reconnect: it closed nothing, dialed once and
\* failed too; the connection the first one closed stays closed.
C15_Witness ==
    \E p \in callers :
        /\ op[p] = "Reconnect" /\ pc[p] = "idle"
        /\ ret[p] = ErrRefused
        /\ Strip(log[p]) = <<Ev("dial", 0)>>
        /\ conns = <<"closed">>
        /\ inner = 0
        /\ ~closeCalled

\* How the cause gets to OnReconnect, step by step.
C16_Steps ==
    \A p \in callers :
        /\ (pc[p] = "idle" /\ op'[p] = "Dial" /\ pc'[p] # "idle") =>
              cause'[p] = Nil
        /\ (op[p] = "Do" /\ pc[p] = "do_check" /\ pc'[p] = "rl_call") =>
              /\ IsNetError(err[p])
              /\ cause'[p] = err[p]
        /\ (pc[p] = "rl_check" /\ pc'[p] = "rl_call") =>
              /\ err[p] \in DialErrs
              /\ cause'[p] = err[p]
        /\ (pc[p] \in {"rl_call", "rc_close", "rc_dial"}
            \/ (pc[p] = "rc_store" /\ pc'[p] # "idle")) =>
              cause'[p] = cause[p]
        /\ (pc[p] = "rc_dial" /\ pc'[p] = "rc_store") =>
              /\ cbArg'[p] = (IF conf.OnReconnect THEN cause[p] ELSE Nil)
              /\ CountEv(log'[p], "OnReconnect")
                    = CountEv(log[p], "OnReconnect")
                      + (IF conf.OnReconnect THEN 1 ELSE 0)

\* The cause a Reconnect of Dial or of Do's ReconnectLoop is called with.
C16_Cause ==
    \A p \in callers :
        /\ op[p] = "Dial" => cause[p] = Nil /\ cbArg[p] = Nil
        /\ (op[p] = "Do" /\ pc[p] \in {"rl_call", "rc_close", "rc_dial"}) =>
              IF FailedDials(SinceAttempt(log[p])) = 0
              THEN cause[p] \in AttemptNetErrs
              ELSE cause[p] \in DialErrs

\* C16. Rolling reconnect cause: the Reconnect made by Dial has cause nil; in
\* the ReconnectLoop Do starts on network error e, the first Reconnect's cause
\* is e, and the cause of every later one is the dial error the failed
\* Reconnect right before it returned; OnReconnect is called with that cause.
C16_RollingCause == []C16_Cause /\ [][C16_Steps]_vars

\* The third Reconnect of a loop inside Do has called OnReconnect with
\* connection refused, the second one's dial error.
C16_Witness ==
    \E p \in callers :
        /\ op[p] = "Do" /\ pc[p] = "rc_store" /\ conf.OnReconnect
        /\ CountEv(SinceAttempt(log[p]), "dial") = 3
        /\ cause[p] = ErrRefused
        /\ cbArg[p] = ErrRefused

\* The two steps of Run.
C17_Steps ==
    \A p \in callers :
        /\ (pc[p] = "run_encode" /\ pc'[p] # "run_encode") =>
              /\ act'[p].inner # NoInner
              /\ act'[p].inner.marshals = act[p].inner.marshals + 1
              /\ ~act'[p].inner.used
              /\ cur'[p] = cur[p]
              /\ effects'[p] = effects[p]
              /\ \/ /\ pc'[p] = "run_decode"
                    /\ conns[cur[p]] = "open"
                    /\ err'[p] = Nil
                    /\ log'[p] = log[p]
                 \/ /\ pc'[p] = "do_check"
                    /\ err'[p] \in EncodeResults(cur[p]) \ {Nil}
                    /\ runStage'[p] = "encode"
                    /\ log'[p] = log[p] \o <<ResultEv(err'[p], cur[p])>>
        /\ (pc[p] = "run_decode" /\ pc'[p] # "run_decode") =>
              /\ pc'[p] = "do_check"
              /\ cur'[p] = cur[p]
              /\ err'[p] \in DecodeResults(cur[p])
              /\ runStage'[p] = "decode"
              /\ log'[p] = log[p] \o <<ResultEv(err'[p], cur[p])>>

\* Where a Run is: decoding only after its Encode succeeded on the same
\* connection; returned with the Encode error and nothing decoded, or with
\* what Decode returned.
C17_Run ==
    \A p \in callers :
        /\ pc[p] = "run_decode" =>
              /\ log[p][Len(log[p])] = Ev("attempt", cur[p])
              /\ act[p].inner.marshals >= 1
              /\ ~act[p].inner.used
              /\ err[p] = Nil
        /\ pc[p] = "do_check" =>
              /\ Len(log[p]) >= 2
              /\ log[p][Len(log[p]) - 1] = Ev("attempt", cur[p])
              /\ log[p][Len(log[p])] = ResultEv(err[p], cur[p])
              /\ runStage[p] = "encode" =>
                    /\ err[p] # Nil
                    /\ err[p] \in EncodeErrs \cup {ErrClosed}
                    /\ act[p].inner # NoInner /\ ~act[p].inner.used
              /\ runStage[p] = "decode" =>
                    /\ err[p] \in {Nil} \cup DecodeErrs \cup {ErrClosed}
                    /\ act[p].inner = NoInner

\* C17. Run sequencing: each Run first Encodes the action onto the connection
\* and only then Decodes the reply from that same connection; if Encode fails
\* Decode is not attempted and Run returns the Encode error as it is,
\* otherwise Run returns what Decode returned.
C17_RunSequencing == []C17_Run /\ [][C17_Steps]_vars

\* A Run of the flat command has returned the marshalling error of its
\* Encode; nothing was decoded.
C17_Witness ==
    \E p \in callers :
        /\ pc[p] = "do_check"
        /\ runStage[p] = "encode"
        /\ err[p] = ErrMarshal
        /\ act[p].variant = "FlatCmd"
        /\ act[p].inner.marshals = 1
        /\ ~act[p].inner.used
        /\ effects[p] = 0

\* No bound radix action has had UnmarshalRESP called on it, and on every
\* action a caller holds MarshalRESP and Keys leave a bound radix action, the
\* one that was bound or else a new one, and UnmarshalRESP leaves none.
C18_Bound ==
    \A p \in callers :
        /\ ~act[p].inner.used
        /\ act[p] # NoAction =>
              /\ MarshalRESP(act[p]).inner # NoInner
              /\ ~MarshalRESP(act[p]).inner.used
              /\ Keys(act[p]).inner # NoInner
              /\ ~Keys(act[p]).inner.used
              /\ act[p].inner # NoInner => Keys(act[p]) = act[p]
              /\ act[p].inner = NoInner => Keys(act[p]).inner = Expected(act[p])
              /\ UnmarshalRESP(act[p]).inner = NoInner

\* What the decode of a Run, its encode and a call of Keys leave bound.
C18_Steps ==
    \A p \in callers :
        /\ (pc[p] = "run_decode" /\ pc'[p] # "run_decode") =>
              /\ err'[p] \in {Nil} \cup DecodeErrs \cup {ErrClosed}
              /\ act'[p].inner = NoInner
              /\ [act'[p] EXCEPT !.inner = act[p].inner] = act[p]
        /\ (pc[p] = "run_encode" /\ pc'[p] # "run_encode") =>
              /\ act'[p].inner # NoInner
              /\ ~act'[p].inner.used
              /\ act[p].inner = NoInner =>
                    act'[p].inner = [Expected(act[p]) EXCEPT !.marshals = 1]
        /\ (pc[p] = "idle" /\ pc'[p] = "idle" /\ op'[p] = op[p]
            /\ act[p] # NoAction /\ act'[p] # act[p]) =>
              /\ act[p].inner = NoInner
              /\ act'[p].inner = Expected(act[p])

\* C18. Discard after decode: whenever UnmarshalRESP of an action completes,
\* with success or with failure, its bound radix action is absent, while
\* MarshalRESP and Keys leave one bound, building it when it is absent; so no
\* bound radix action is used for MarshalRESP or Keys after UnmarshalRESP was
\* called on it.
C18_DiscardAfterDecode == []C18_Bound /\ [][C18_Steps]_vars

\* The second decode of a Do failed with WRONGTYPE, as the first did with
\* LOADING: the radix action the second Run built and marshalled is gone.
C18_Witness ==
    \E p \in callers :
        /\ pc[p] = "do_check"
        /\ runStage[p] = "decode"
        /\ attempts[p] = 2
        /\ err[p] = ErrWrongType
        /\ CountSleep(log[p], 250) = 1
        /\ act[p] # NoAction
        /\ act[p].inner = NoInner

\* Caller p's current call has dialed, respectively closed, connection c.
Dialed(p, c) == \E i \in DOMAIN log[p] : log[p][i] = Ev("dial", c)
Closed(p, c) == \E i \in DOMAIN log[p] : log[p][i] = Ev("close", c)

\* A store that replaces an open connection in inner: the caller storing did
\* not close it, the other caller dialed it and stored it in between.
C19_Store ==
    \A p \in callers :
        (/\ pc[p] = "rc_store" /\ pc'[p] # "rc_store"
         /\ inner # 0 /\ conns[inner] = "open" /\ newInner[p] # inner) =>
            /\ ~Closed(p, inner)
            /\ \E q \in callers \ {p} : op[q] = "Do" /\ Dialed(q, inner)
            /\ inner' # inner
            /\ conns'[inner] = "open"

\* An attempt on a closed connection runs on one the other caller closed; more
\* than one open connection means both callers dialed.
C19_Races ==
    /\ \A p \in callers :
          (pc[p] \in {"run_encode", "run_decode"}
           /\ conns[cur[p]] = "closed") =>
              /\ ~Closed(p, cur[p])
              /\ \E q \in callers \ {p} : op[q] = "Do" /\ Closed(q, cur[p])
    /\ Cardinality(OpenConns) > 1 =>
          \A p \in callers :
              op[p] = "Do" /\ \E c \in DOMAIN conns : Dialed(p, c)

\* C19. Concurrent Do is unsafe: with two callers in Do on one wrapper, both
\* run Reconnect and dial, and the connection one of them stored is replaced
\* in inner by the other's without being closed, so that more than one
\* connection is open, or an attempt of one runs on a connection the other
\* has closed; neither happens unless the other caller dialed, respectively
\* closed, the connection.
C19_ConcurrentDoUnsafe == []C19_Races /\ [][C19_Store]_vars

\* Both callers have dialed: two connections are open, one is inner, the
\* other is referred to by nothing and stays open.
C19_Witness ==
    \E c \in OpenConns : \E d \in OpenConns :
        /\ c # d
        /\ inner = d
        /\ \A p \in callers :
              /\ newInner[p] # c
              /\ cur[p] # c
              /\ op[p] = "Do"
              /\ \E n \in OpenConns : Dialed(p, n)

\* One caller's attempt is running on the connection the other has closed.
C19_OnClosed ==
    \E p \in callers : \E q \in callers \ {p} :
        /\ pc[p] = "run_encode"
        /\ conns[cur[p]] = "closed"
        /\ Closed(q, cur[p])

\* The calls that forward to rc.inner.
Forwarding == {"Do", "Close", "Encode", "Decode", "NetConn"}

\* Process p takes a step of a call it makes or is in.
C20_Calls(p) == <<pc[p], op[p], ret[p], log[p]>> # <<pc'[p], op'[p], ret'[p], log'[p]>>

\* inner gets present only by the store of a Reconnect whose dial succeeded;
\* a forwarding call made while inner is absent faults, and changes nothing.
C20_Steps ==
    /\ (inner = 0 /\ inner' # 0) =>
          \E p \in callers :
              /\ pc[p] = "rc_store"
              /\ err[p] = Nil
              /\ newInner[p] = inner'
              /\ conns[inner'] = "open"
    /\ \A p \in callers :
          /\ (made /\ inner = 0 /\ pc[p] = "do_attempt" /\ C20_Calls(p)) =>
                /\ pc'[p] = "panic"
                /\ op'[p] = "Do"
                /\ log'[p] = <<>>
                /\ inner' = 0
                /\ conns' = conns
          /\ (made /\ inner = 0 /\ pc[p] = "idle" /\ C20_Calls(p)
              /\ op'[p] \in Forwarding \ {"Do"}) =>
                /\ pc'[p] = "panic"
                /\ log'[p] = <<>>
                /\ inner' = 0
                /\ conns' = conns

\* On the wrapper of a failed Dial, before any Reconnect succeeded: inner is
\* absent, no forwarding call has returned, and a Do is about to fault or has
\* faulted, with no attempt, no reconnect and no sleep.
C20_Absent ==
    /\ (made /\ ~dialOk /\ conns = <<>>) =>
          /\ inner = 0
          /\ \A p \in callers :
                op[p] \in Forwarding =>
                    /\ pc[p] \in {"do_attempt", "panic"}
                    /\ log[p] = <<>>
                    /\ attempts[p] = 0
    /\ \A p \in callers :
          pc[p] = "panic" =>
              /\ inner = 0
              /\ op[p] \in Forwarding
              /\ log[p] = <<>>

\* C20. No recovery after a failed first dial: on the wrapper of a Dial whose
\* dial failed inner is absent and stays absent until a Reconnect succeeds; a
\* Do, Close, Encode, Decode or NetConn called in that state neither enters
\* ReconnectLoop nor returns an error, it faults on the absent inner.
C20_NoRecovery == []C20_Absent /\ [][C20_Steps]_vars

\* Dial failed, and the Do called on its wrapper has faulted.
C20_Witness ==
    \E p \in callers :
        /\ made /\ ~dialOk
        /\ conns = <<>>
        /\ inner = 0
        /\ op[p] = "Do"
        /\ pc[p] = "panic"

====
